---- MODULE Spec2Model ----
(***************************************************************************)
(* ResumeXpert (src/app.py): a Streamlit script that extracts the text of  *)
(* an uploaded PDF resume, formats it with a job description into a fixed  *)
(* prompt, sends the prompt to a chat-completion endpoint, parses the      *)
(* answer as JSON and renders it.                                          *)
(*                                                                         *)
(* Streamlit re-executes the whole script, top to bottom, on every user    *)
(* interaction; st.stop() ends the current execution.  The model follows   *)
(* one browser session: the widget values (jd, uploaded_file) and the      *)
(* process environment (the credential) persist between executions, the    *)
(* script's own variables do not.                                          *)
(***************************************************************************)
EXTENDS Integers, Sequences, FiniteSets, TLC

(***************************************************************************)
(* Bounds of the model.                                                    *)
(***************************************************************************)
\* pages of an uploaded document
MaxPages == 2
\* elements of a JSON array in a completion
MaxItems == 1
\* completion requests one execution may send before the model stops counting
MaxCalls == 2

(***************************************************************************)
(* Python values.  Every value is a record tagged with its Python type;    *)
(* values of different types have different fields.                        *)
(*   chars : a str the script inspects character by character (the job     *)
(*           description, the resume text, the prompt)                     *)
(*   toks  : a str holding a completion, as its sequence of JSON tokens    *)
(*   s     : a str inside a parsed completion (only passed on, never       *)
(*           inspected)                                                    *)
(***************************************************************************)
PyNone == [t |-> "None"]
PyText(cs) == [t |-> "str", chars |-> cs]
PyRaw(ts) == [t |-> "str", toks |-> ts]
PyStr(x) == [t |-> "str", s |-> x]
PyInt(x) == [t |-> "int", n |-> x]
PyBool(x) == [t |-> "bool", b |-> x]
PyList(xs) == [t |-> "list", items |-> xs]
PyDict(f) == [t |-> "dict", d |-> f]
EmptyDict == [x \in {} |-> PyNone]

\* Python truth value of a parsed JSON value (`if missing_keywords:`)
Truthy(v) ==
    CASE v.t = "None" -> FALSE
      [] v.t = "bool" -> v.b
      [] v.t = "int" -> v.n # 0
      [] v.t = "str" -> v.s # ""
      [] v.t = "list" -> v.items # <<>>
      [] v.t = "dict" -> DOMAIN v.d # {}

(***************************************************************************)
(* str.strip(): drops leading and trailing whitespace.                     *)
(***************************************************************************)
IsSpace(c) == c \in {" ", "\n", "\t"}

RECURSIVE lstrip(_)
lstrip(cs) == IF cs # <<>> /\ IsSpace(Head(cs)) THEN lstrip(Tail(cs)) ELSE cs

RECURSIVE rstrip(_)
rstrip(cs) ==
    IF cs # <<>> /\ IsSpace(cs[Len(cs)])
    THEN rstrip(SubSeq(cs, 1, Len(cs) - 1))
    ELSE cs

strip(cs) == rstrip(lstrip(cs))

(***************************************************************************)
(* The prompt template and str.format.                                     *)
(*                                                                         *)
(* The template is kept character by character where braces are involved;  *)
(* each run of literal text without braces is one symbol:                  *)
(*   "A" = lines 41-44 up to "Resume: "     "B" = "\nJob Description: "    *)
(*   "C" = lines 46-50 up to "starts with `"                               *)
(*   "D" = "` and ends with `"                                             *)
(*   "E" = lines 50-53 up to the opening brace of the skeleton             *)
(*   "F" = "\n  \"JD Match\""  (the text before the skeleton's first ':')  *)
(*   "G" = the rest of the skeleton's body, lines 55-58                    *)
(*   "H" = the final newline                                               *)
(***************************************************************************)
\* the template with the literal braces of its instructions left single (the
\* KeyError the comment of line 100 speaks of)
input_prompt_unescaped ==
    << "A", "{", "t", "e", "x", "t", "}",
       "B", "{", "j", "d", "}",
       "C", "{", "D", "}",
       "E", "{", "F", ":", "G", "}", "H" >>

input_prompt ==
    << "A", "{", "t", "e", "x", "t", "}",
       "B", "{", "j", "d", "}",
       "C", "{", "{", "D", "}", "}",
       "E", "{", "{", "F", ":", "G", "}", "}", "H" >>

Formatted(cs) == [exc |-> "none", s |-> cs]
FormatError(e) == [exc |-> e, s |-> <<>>]

\* index of the first '}' at or after i, 0 when there is none
RECURSIVE FindClose(_, _)
FindClose(tpl, i) ==
    IF i > Len(tpl) THEN 0
    ELSE IF tpl[i] = "}" THEN i
    ELSE FindClose(tpl, i + 1)

\* the field name of a replacement field: what precedes its '!' or ':'
RECURSIVE FieldName(_)
FieldName(cs) ==
    IF cs = <<>> \/ Head(cs) \in {":", "!"} THEN <<>>
    ELSE <<Head(cs)>> \o FieldName(Tail(cs))

\* str.format(**kw) from position i, with `out` already produced
RECURSIVE format_from(_, _, _, _)
format_from(tpl, kw, i, out) ==
    IF i > Len(tpl) THEN Formatted(out)
    ELSE IF tpl[i] = "{" THEN
        IF i < Len(tpl) /\ tpl[i + 1] = "{"
        THEN format_from(tpl, kw, i + 2, Append(out, "{"))
        ELSE LET j == FindClose(tpl, i + 1) IN
             IF j = 0 THEN FormatError("ValueError")
             ELSE LET name == FieldName(SubSeq(tpl, i + 1, j - 1)) IN
                  IF name = <<>> THEN FormatError("IndexError")
                  ELSE IF name \in DOMAIN kw
                       THEN format_from(tpl, kw, j + 1, out \o kw[name])
                       ELSE FormatError("KeyError")
    ELSE IF tpl[i] = "}" THEN
        IF i < Len(tpl) /\ tpl[i + 1] = "}"
        THEN format_from(tpl, kw, i + 2, Append(out, "}"))
        ELSE FormatError("ValueError")
    ELSE format_from(tpl, kw, i + 1, Append(out, tpl[i]))

\* input_prompt.format(text=text, jd=jd)
format(tpl, text_, jd_) ==
    format_from(tpl,
                [n \in {<<"t", "e", "x", "t">>, <<"j", "d">>} |->
                    IF n = <<"j", "d">> THEN jd_ ELSE text_],
                1, <<>>)

(***************************************************************************)
(* JSON.  A completion is a sequence of JSON tokens:                       *)
(*   [k |-> "p", c |-> ch]   punctuation, ch one of { } [ ] , :            *)
(*   [k |-> "s", s |-> str]  a string literal                              *)
(*   [k |-> "n", n |-> int]  a number literal                              *)
(*   [k |-> "w", w |-> word] a bare word: true, false, null, or text that  *)
(*                           is no JSON at all                             *)
(***************************************************************************)
P(ch) == [k |-> "p", c |-> ch]
S(x) == [k |-> "s", s |-> x]
N(x) == [k |-> "n", n |-> x]
W(x) == [k |-> "w", w |-> x]

IsP(toks, i, ch) == i <= Len(toks) /\ toks[i].k = "p" /\ toks[i].c = ch

Parsed(v, i) == [ok |-> TRUE, v |-> v, i |-> i]
NoParse == [ok |-> FALSE, v |-> PyNone, i |-> 0]

\* json.loads: the decoder, one value starting at token i
RECURSIVE parse_value(_, _), parse_array(_, _, _), parse_object(_, _, _)
parse_value(toks, i) ==
    IF i > Len(toks) THEN NoParse
    ELSE LET tk == toks[i] IN
         CASE tk.k = "s" -> Parsed(PyStr(tk.s), i + 1)
           [] tk.k = "n" -> Parsed(PyInt(tk.n), i + 1)
           [] tk.k = "w" ->
                IF tk.w = "true" THEN Parsed(PyBool(TRUE), i + 1)
                ELSE IF tk.w = "false" THEN Parsed(PyBool(FALSE), i + 1)
                ELSE IF tk.w = "null" THEN Parsed(PyNone, i + 1)
                ELSE NoParse
           [] tk.k = "p" ->
                IF tk.c = "[" THEN
                    IF IsP(toks, i + 1, "]")
                    THEN Parsed(PyList(<<>>), i + 2)
                    ELSE parse_array(toks, i + 1, <<>>)
                ELSE IF tk.c = "{" THEN
                    IF IsP(toks, i + 1, "}")
                    THEN Parsed(PyDict(EmptyDict), i + 2)
                    ELSE parse_object(toks, i + 1, EmptyDict)
                ELSE NoParse

\* the elements of an array after '[' or ',', `acc` already read
parse_array(toks, i, acc) ==
    LET r == parse_value(toks, i) IN
    IF ~r.ok THEN NoParse
    ELSE IF IsP(toks, r.i, ",") THEN parse_array(toks, r.i + 1, Append(acc, r.v))
    ELSE IF IsP(toks, r.i, "]") THEN Parsed(PyList(Append(acc, r.v)), r.i + 1)
    ELSE NoParse

\* the members of an object after '{' or ',', `acc` already read; a repeated
\* key keeps its last value
parse_object(toks, i, acc) ==
    IF ~(i <= Len(toks) /\ toks[i].k = "s" /\ IsP(toks, i + 1, ":")) THEN NoParse
    ELSE LET key == toks[i].s
             r == parse_value(toks, i + 2)
             d == [x \in DOMAIN acc \cup {key} |-> IF x = key THEN r.v ELSE acc[x]]
         IN  IF ~r.ok THEN NoParse
             ELSE IF IsP(toks, r.i, ",") THEN parse_object(toks, r.i + 1, d)
             ELSE IF IsP(toks, r.i, "}") THEN Parsed(PyDict(d), r.i + 1)
             ELSE NoParse

\* json.loads(response): the whole text must be one value
json_loads(toks) ==
    LET r == parse_value(toks, 1) IN
    IF r.ok /\ r.i = Len(toks) + 1
    THEN [exc |-> "none", v |-> r.v]
    ELSE [exc |-> "JSONDecodeError", v |-> PyNone]

\* The keys the script reads, in the order of the prompt's skeleton
Keys == <<"JD Match", "MissingKeywords", "ProfileSummary", "Suggestions">>
KeySet == {Keys[i] : i \in 1..Len(Keys)}

\* json.dumps: the encoder (members in the order of Keys)
RECURSIVE json_dumps(_), dumps_items(_), dumps_members(_, _)
json_dumps(v) ==
    CASE v.t = "None" -> <<W("null")>>
      [] v.t = "bool" -> <<W(IF v.b THEN "true" ELSE "false")>>
      [] v.t = "int" -> <<N(v.n)>>
      [] v.t = "str" -> <<S(v.s)>>
      [] v.t = "list" -> <<P("[")>> \o dumps_items(v.items) \o <<P("]")>>
      [] v.t = "dict" ->
            <<P("{")>>
            \o dumps_members(v.d, SelectSeq(Keys, LAMBDA x : x \in DOMAIN v.d))
            \o <<P("}")>>

dumps_items(xs) ==
    IF xs = <<>> THEN <<>>
    ELSE json_dumps(Head(xs))
         \o (IF Len(xs) > 1 THEN <<P(",")>> ELSE <<>>)
         \o dumps_items(Tail(xs))

dumps_members(d, ks) ==
    IF ks = <<>> THEN <<>>
    ELSE <<S(Head(ks)), P(":")>> \o json_dumps(d[Head(ks)])
         \o (IF Len(ks) > 1 THEN <<P(",")>> ELSE <<>>)
         \o dumps_members(d, Tail(ks))

(***************************************************************************)
(* What the script shows: the calls it makes on the page, in order.        *)
(***************************************************************************)
Error(m) == [w |-> "error", m |-> m]
Warning(m) == [w |-> "warning", m |-> m]
Success(m) == [w |-> "success", m |-> m]
Info(m) == [w |-> "info", m |-> m]
Code(v) == [w |-> "code", body |-> v]
Metric(label, v) == [w |-> "metric", label |-> label, val |-> v]
Write(label, v) == [w |-> "write", label |-> label, val |-> v]
Markdown(v) == [w |-> "markdown", val |-> v]

(***************************************************************************)
(* The collaborators' side of the two calls the script makes.              *)
(***************************************************************************)
\* page.extract_text() of one page: None, whitespace only, or text
PageTexts == {PyNone, PyText(<<"\n">>), PyText(<<"{", "a", "}", " ">>)}

\* an uploaded document: one PdfReader cannot read, or its pages
Corrupt == [t |-> "UploadedFile", k |-> "corrupt", pages |-> <<>>]
Pdf(ps) == [t |-> "UploadedFile", k |-> "pdf", pages |-> ps]
Files == {Corrupt} \cup {Pdf(ps) : ps \in UNION {[1..n -> PageTexts] : n \in 0..MaxPages}}

\* the documents followed when two submissions of one session are compared
PairedFiles ==
    {Corrupt, Pdf(<<PyText(<<"\n">>)>>), Pdf(<<PyText(<<"{", "a", "}", " ">>)>>)}

\* what the user may have typed as the job description
JdTexts == {<<>>, <<" ", "\n">>, <<" ", "{", "j", "}">>}

\* the values a completion may hold under the four keys
Items == {PyStr("kw"), PyInt(1)}
Arrays == {PyList(xs) : xs \in UNION {[1..n -> Items] : n \in 0..MaxItems}}
Absent == [t |-> "absent"]
MatchValues ==
    {PyStr("85%"), PyInt(72), PyBool(TRUE), PyNone,
     PyList(<<PyStr("kw")>>), PyDict(EmptyDict)}
KeywordValues ==
    Arrays \cup {PyList(<<PyStr("Kubernetes"), PyStr("gRPC")>>),
                 PyStr("kw"), PyInt(5), PyNone, PyDict(EmptyDict)}
SummaryValues == {PyStr("Strong backend profile."), PyInt(3)}
SuggestionValues ==
    {PyList(<<>>), PyList(<<PyStr("tip")>>), PyList(<<PyInt(1)>>),
     PyStr("tip"), PyInt(5), PyInt(0), PyBool(TRUE), PyNone}

MakeDict(a, b, c, d) ==
    LET f == [k \in KeySet |->
                 IF k = Keys[1] THEN a
                 ELSE IF k = Keys[2] THEN b
                 ELSE IF k = Keys[3] THEN c
                 ELSE d]
    IN  PyDict([k \in {x \in KeySet : f[x].t # "absent"} |-> f[k]])

Objects ==
    {MakeDict(a, b, c, d) :
        a \in MatchValues \cup {Absent}, b \in KeywordValues \cup {Absent},
        c \in SummaryValues \cup {Absent}, d \in SuggestionValues \cup {Absent}}

NonObjects ==
    {PyList(<<>>), PyList(<<PyStr("kw")>>), PyStr("85%"), PyInt(72),
     PyBool(TRUE), PyNone}

\* texts that are no JSON: empty, prose, a truncated object, an object
\* inside a Markdown code fence, a trailing comma
InvalidTexts ==
    { <<>>,
      <<W("not"), W("json")>>,
      <<P("{"), S("JD Match"), P(":")>>,
      <<W("fence"), P("{"), P("}"), W("fence")>>,
      <<P("{"), S("JD Match"), P(":"), S("85%"), P(","), P("}")>> }

\* an object with none of the four keys and one the script does not read
OtherKeyText == <<P("{"), S("Score"), P(":"), N(1), P("}")>>

Completions ==
    {json_dumps(v) : v \in Objects \cup NonObjects}
    \cup InvalidTexts \cup {OtherKeyText}

\* the completions followed when two submissions of one session are compared:
\* the spec's scenarios 1-3, an array, and a number where a list is expected
PairedCompletions ==
    { json_dumps(MakeDict(PyStr("85%"), PyList(<<PyStr("kw"), PyStr("kw")>>),
                          PyStr("Strong backend profile."), PyList(<<PyStr("tip")>>))),
      json_dumps(MakeDict(PyStr("85%"), Absent, Absent, Absent)),
      <<W("not"), W("json")>>,
      json_dumps(PyList(<<>>)),
      json_dumps(MakeDict(Absent, PyInt(5), Absent, Absent)) }

\* what client.chat.completions.create(...) does: raises, answers with no
\* choice, or answers with a first choice whose content is None or a text.
\* An endpoint rejects a request that carries an invalid key.
Raises == [k |-> "raise", content |-> PyNone]
NoChoices == [k |-> "nochoices", content |-> PyNone]
Content(c) == [k |-> "content", content |-> c]
ApiBehaviours(credential, texts) ==
    IF credential = "invalid" THEN {Raises}
    ELSE {Raises, NoChoices, Content(PyNone)}
         \cup {Content(PyRaw(ts)) : ts \in texts}

\* Groq(api_key=os.getenv("GROQ_API_KEY")) raises only when no key is set:
\* the constructor sends nothing, so it cannot tell a wrong key from a right one
Credentials == {"absent", "invalid", "valid"}
GroqRaises(credential) == credential = "absent"

(***************************************************************************)
(* The script's two functions.  Each returns what the function returns     *)
(* (ret) and what it shows on the way (shown).                             *)
(***************************************************************************)
\* a variant that answers a failure with an empty text instead of None
get_groq_response_blank(b) ==
    IF b.k \in {"raise", "nochoices"}
    THEN [ret |-> PyRaw(<<>>), shown |-> <<Error("Error getting response from Groq")>>]
    ELSE [ret |-> b.content, shown |-> <<>>]

\* lines 18-29; choices[0] of an answer with no choice raises IndexError,
\* which the except clause catches like any other exception
get_groq_response(b) ==
    IF b.k \in {"raise", "nochoices"}
    THEN [ret |-> PyNone, shown |-> <<Error("Error getting response from Groq")>>]
    ELSE [ret |-> b.content, shown |-> <<>>]

\* "".join(page.extract_text() or "" for page in reader.pages)
RECURSIVE join_pages(_)
join_pages(ps) ==
    IF ps = <<>> THEN <<>>
    ELSE (IF Head(ps).t = "None" THEN <<>> ELSE Head(ps).chars)
         \o join_pages(Tail(ps))

\* lines 31-38
input_pdf_text(f) ==
    IF f.k = "corrupt"
    THEN [ret |-> PyNone, shown |-> <<Error("Error reading PDF")>>]
    ELSE LET joined == join_pages(f.pages) IN
         [ret |-> IF joined # <<>> THEN PyText(strip(joined)) ELSE PyNone,
          shown |-> <<>>]

(***************************************************************************)
(* Rendering, lines 112-143.  A frame holds what has been shown, the       *)
(* fields read from the result so far, and the exception raised, if any,   *)
(* with the line that raised it; each stage is skipped once an exception   *)
(* is raised.                                                              *)
(***************************************************************************)
NoExc == [type |-> "none", line |-> 0]
Exc(type, line) == [type |-> type, line |-> line]
Raise(r, type, line) == [r EXCEPT !.exc = Exc(type, line)]
Show(r, ev) == [r EXCEPT !.shown = Append(@, ev)]
Bind(r, key, v) ==
    [r EXCEPT !.report =
        [x \in DOMAIN r.report \cup {key} |-> IF x = key THEN v ELSE r.report[x]]]

\* result.get(key): a variant that ignores the default
dict_get_no_default(v, key, default) == IF key \in DOMAIN v.d THEN v.d[key] ELSE PyNone

\* result.get(key, default) on a dict
dict_get(v, key, default) == IF key \in DOMAIN v.d THEN v.d[key] ELSE default

\* st.metric(label, value) takes an int (a bool is one), a float, a str or
\* None, and raises TypeError for anything else
MetricAccepts(v) == v.t \in {"None", "bool", "int", "str"}
\* len(v) is defined
HasLen(v) == v.t \in {"str", "list", "dict"}
py_len(v) ==
    CASE v.t = "str" -> Len(v.s)
      [] v.t = "list" -> Len(v.items)
      [] v.t = "dict" -> Cardinality(DOMAIN v.d)
\* ", ".join(v) is defined: v is iterable and yields only str
Joinable(v) ==
    CASE v.t = "str" -> TRUE
      [] v.t = "dict" -> TRUE
      [] v.t = "list" -> \A i \in 1..Len(v.items) : v.items[i].t = "str"
      [] OTHER -> FALSE
\* enumerate(v, 1) is defined
Iterable(v) == v.t \in {"str", "list", "dict"}

\* line 112, 114-116
render_match(r0, result_) ==
    LET r == Show(r0, Success("Analysis Complete!")) IN
    IF result_.t # "dict" THEN Raise(r, "AttributeError", 116)
    ELSE LET v == dict_get(result_, "JD Match", PyStr("N/A")) IN
         IF MetricAccepts(v)
         THEN Show(Bind(r, "JD Match", v), Metric("Match Score", v))
         ELSE Raise(Bind(r, "JD Match", v), "TypeError", 116)

\* lines 117-119
render_count(r, result_) ==
    IF r.exc # NoExc THEN r
    ELSE LET v == dict_get(result_, "MissingKeywords", PyList(<<>>)) IN
         IF HasLen(v)
         THEN Show(Bind(r, "MissingKeywords", v),
                   Metric("Missing Keywords", PyInt(py_len(v))))
         ELSE Raise(Bind(r, "MissingKeywords", v), "TypeError", 119)

\* lines 122-123
render_summary(r, result_) ==
    IF r.exc # NoExc THEN r
    ELSE LET v == dict_get(result_, "ProfileSummary", PyStr("No summary provided")) IN
         Show(Bind(r, "ProfileSummary", v), Write("Profile Summary", v))

\* lines 126-130
render_keywords(r) ==
    IF r.exc # NoExc THEN r
    ELSE LET v == r.report["MissingKeywords"] IN
         IF ~Truthy(v) THEN Show(r, Info("No significant missing keywords found"))
         ELSE IF Joinable(v) THEN Show(r, Write("Missing Keywords", v))
         ELSE Raise(r, "TypeError", 128)

\* lines 133-139
render_suggestions(r, result_) ==
    IF r.exc # NoExc THEN r
    ELSE LET v == dict_get(result_, "Suggestions", PyList(<<>>))
             b == Bind(r, "Suggestions", v)
         IN  IF ~Truthy(v) THEN Show(b, Info("No specific suggestions available"))
             ELSE IF Iterable(v) THEN Show(b, Markdown(v))
             ELSE Raise(b, "TypeError", 136)

\* lines 112-143; the "Show Raw Response" checkbox is created unticked in the
\* execution the button starts, so line 143 does not run in it
render(result_) ==
    render_suggestions(
        render_keywords(
            render_summary(
                render_count(
                    render_match([exc |-> NoExc, shown |-> <<>>, report |-> EmptyDict],
                                 result_),
                    result_),
                result_)),
        result_)

(***************************************************************************)
(* State.                                                                  *)
(***************************************************************************)
VARIABLES
    cred,              \* GROQ_API_KEY in the environment: absent, invalid, valid
    jd,                \* the text area's value (line 81)
    uploaded_file,     \* the uploader's value (line 82): None or a document
    submit,            \* the button's value in this execution (line 83)
    pc,                \* where the execution of the script stands
    client,            \* line 13
    text,              \* line 95
    formatted_prompt,  \* line 100
    response,          \* line 101
    result,            \* line 109
    report,            \* the fields read from result, lines 116-134
    ui,                \* what this execution has put on the page
    exc,               \* the exception that ended this execution uncaught
    outcome,           \* how this execution ended
    steps,             \* the pipeline steps this execution has run
    calls,             \* the completion requests this execution has sent
    api,               \* what the endpoint did with this execution's request
    earlier            \* observer: one earlier submission of the session

vars ==
    << cred, jd, uploaded_file, submit, pc, client, text, formatted_prompt,
       response, result, report, ui, exc, outcome, steps, calls, api, earlier >>

\* a script variable not assigned yet
Unset == [t |-> "unset"]

\* The observer either is off, or has seen nothing yet, or holds one finished
\* submission: what went into it and what came out of it.
NotObserving == [k |-> "off"]
NothingYet == [k |-> "nothing"]
Inputs == [jd |-> jd, file |-> uploaded_file, api |-> api, response |-> response]
Outputs ==
    [outcome |-> outcome, exc |-> exc, ui |-> ui, report |-> report,
     text |-> text, prompt |-> formatted_prompt, result |-> result,
     steps |-> steps, calls |-> calls]
Observed == [k |-> "seen", inp |-> Inputs, out |-> Outputs]
Finished == pc = "idle" /\ submit
Observe ==
    IF earlier.k = "nothing" /\ Finished THEN {earlier, Observed} ELSE {earlier}

\* Comparing two submissions squares the inputs to follow, so the observer
\* comes with the smaller sets of documents and completions.
FilesFollowed == IF earlier.k = "off" THEN Files ELSE PairedFiles
CompletionsFollowed == IF earlier.k = "off" THEN Completions ELSE PairedCompletions

\* a fresh execution of the script: nothing assigned, nothing shown
Fresh ==
    /\ client = "unset"
    /\ text = Unset
    /\ formatted_prompt = Unset
    /\ response = Unset
    /\ result = Unset
    /\ report = EmptyDict
    /\ ui = <<>>
    /\ exc = NoExc
    /\ outcome = "none"
    /\ steps = <<>>
    /\ calls = 0
    /\ api = "none"

InitWith(e) ==
    /\ cred \in Credentials
    /\ jd = PyText(<<>>)
    /\ uploaded_file = PyNone
    /\ submit = FALSE
    /\ pc = "boot"
    /\ Fresh
    /\ earlier = e

Init == InitWith(NotObserving)
InitPairs == InitWith(NothingYet)

(***************************************************************************)
(* The user.  Every interaction makes Streamlit execute the script again,  *)
(* from line 1, in a new namespace and on a cleared page; the button is    *)
(* True only in the execution its click starts.                            *)
(***************************************************************************)
\* a variant that keeps the report of the execution before
RerunStale(s) ==
    /\ pc' = "boot"
    /\ submit' = s
    /\ client' = "unset"
    /\ text' = Unset
    /\ formatted_prompt' = Unset
    /\ response' = Unset
    /\ result' = Unset
    /\ report' = report
    /\ ui' = <<>>
    /\ exc' = NoExc
    /\ outcome' = "none"
    /\ steps' = <<>>
    /\ calls' = 0
    /\ api' = "none"
    /\ earlier' \in Observe

\* a new execution of the script
Rerun(s) ==
    /\ pc' = "boot"
    /\ submit' = s
    /\ client' = "unset"
    /\ text' = Unset
    /\ formatted_prompt' = Unset
    /\ response' = Unset
    /\ result' = Unset
    /\ report' = EmptyDict
    /\ ui' = <<>>
    /\ exc' = NoExc
    /\ outcome' = "none"
    /\ steps' = <<>>
    /\ calls' = 0
    /\ api' = "none"
    /\ earlier' \in Observe

\* line 81: the user edits the job description
EnterJd ==
    /\ pc = "idle"
    /\ \E cs \in JdTexts : cs # jd.chars /\ jd' = PyText(cs)
    /\ Rerun(FALSE)
    /\ UNCHANGED <<cred, uploaded_file>>

\* line 82: the user uploads a document, or removes the uploaded one
UploadFile ==
    /\ pc = "idle"
    /\ \E f \in FilesFollowed \cup {PyNone} :
          f # uploaded_file /\ uploaded_file' = f
    /\ Rerun(FALSE)
    /\ UNCHANGED <<cred, jd>>

\* line 83: the user clicks "Submit for Analysis"
ClickSubmit ==
    /\ pc = "idle"
    /\ Rerun(TRUE)
    /\ UNCHANGED <<cred, jd, uploaded_file>>

\* the user reloads the page: a new session, the widgets at their defaults.
\* After a failed start this is all the page allows.
Reload ==
    /\ pc \in {"idle", "halted"}
    /\ jd' = PyText(<<>>)
    /\ uploaded_file' = PyNone
    /\ Rerun(FALSE)
    /\ UNCHANGED cred

(***************************************************************************)
(* The script, one action per step of an execution.                        *)
(***************************************************************************)
\* st.stop() after a warning or an error, or the end of the script
Ends(how) == pc' = "idle" /\ outcome' = how

\* lines 11-16 without the st.stop() of line 16
InitClientNoStop ==
    /\ pc = "boot"
    /\ IF GroqRaises(cred)
       THEN /\ ui' = Append(ui, Error("Failed to initialize Groq client"))
            /\ client' = client
       ELSE /\ client' = "ready"
            /\ ui' = ui
    /\ pc' = "inputs"
    /\ UNCHANGED << cred, jd, uploaded_file, submit, text, formatted_prompt,
                    response, result, report, exc, outcome, steps, calls, api,
                    earlier >>

\* lines 11-16
InitClient ==
    /\ pc = "boot"
    /\ IF GroqRaises(cred)
       THEN /\ ui' = Append(ui, Error("Failed to initialize Groq client"))
            /\ outcome' = "CredentialInitError"
            /\ pc' = "halted"
            /\ client' = client
       ELSE /\ client' = "ready"
            /\ pc' = "inputs"
            /\ UNCHANGED <<ui, outcome>>
    /\ UNCHANGED << cred, jd, uploaded_file, submit, text, formatted_prompt,
                    response, result, report, exc, steps, calls, api, earlier >>

\* lines 81-92: the widgets are read; without a click the script ends here
ReadInputs ==
    /\ pc = "inputs"
    /\ IF ~submit
       THEN Ends("NoSubmit") /\ ui' = ui
       ELSE IF strip(jd.chars) = <<>>
       THEN Ends("InputWarning")
            /\ ui' = Append(ui, Warning("Please enter a job description"))
       ELSE IF uploaded_file.t = "None"
       THEN Ends("InputWarning")
            /\ ui' = Append(ui, Warning("Please upload your resume"))
       ELSE pc' = "extract" /\ UNCHANGED <<ui, outcome>>
    /\ UNCHANGED << cred, jd, uploaded_file, submit, client, text,
                    formatted_prompt, response, result, report, exc, steps,
                    calls, api, earlier >>

\* lines 95-98
ExtractText ==
    /\ pc = "extract"
    /\ LET r == input_pdf_text(uploaded_file) IN
       /\ text' = r.ret
       /\ IF r.ret.t = "None"
          THEN /\ ui' = ui \o r.shown
                        \o <<Error("Could not extract text from the PDF")>>
               /\ Ends("ExtractionError")
          ELSE /\ ui' = ui \o r.shown
               /\ pc' = "compile"
               /\ outcome' = outcome
    /\ steps' = Append(steps, "extract")
    /\ UNCHANGED << cred, jd, uploaded_file, submit, client, formatted_prompt,
                    response, result, report, exc, calls, api, earlier >>

\* line 100; an exception str.format raises is caught nowhere
CompilePrompt ==
    /\ pc = "compile"
    /\ LET f == format(input_prompt, text.chars, jd.chars) IN
       IF f.exc # "none"
       THEN /\ exc' = Exc(f.exc, 100)
            /\ Ends("Uncaught")
            /\ formatted_prompt' = formatted_prompt
       ELSE /\ formatted_prompt' = PyText(f.s)
            /\ pc' = "complete"
            /\ UNCHANGED <<exc, outcome>>
    /\ steps' = Append(steps, "compile")
    /\ UNCHANGED << cred, jd, uploaded_file, submit, client, text, response,
                    result, report, ui, calls, api, earlier >>

\* line 101: one request; the endpoint answers it one way or another
CallCompletion ==
    /\ pc = "complete"
    /\ calls < MaxCalls
    /\ \E b \in ApiBehaviours(cred, CompletionsFollowed) :
          LET r == get_groq_response(b) IN
          /\ response' = r.ret
          /\ ui' = ui \o r.shown
          /\ api' = b.k
    /\ calls' = calls + 1
    /\ steps' = Append(steps, "complete")
    /\ pc' = "check"
    /\ UNCHANGED << cred, jd, uploaded_file, submit, client, text,
                    formatted_prompt, result, report, exc, outcome, earlier >>

\* lines 103-105 with the request sent again instead of st.stop()
CheckResponseRetry ==
    /\ pc = "check"
    /\ IF response.t = "None"
       THEN /\ ui' = Append(ui, Error("No response received from AI"))
            /\ pc' = "complete"
       ELSE /\ pc' = "parse"
            /\ UNCHANGED ui
    /\ UNCHANGED << cred, jd, uploaded_file, submit, client, text,
                    formatted_prompt, response, result, report, exc, outcome,
                    steps, calls, api, earlier >>

\* lines 103-105
CheckResponse ==
    /\ pc = "check"
    /\ IF response.t = "None"
       THEN /\ ui' = Append(ui, Error("No response received from AI"))
            /\ Ends("CompletionError")
       ELSE /\ pc' = "parse"
            /\ UNCHANGED <<ui, outcome>>
    /\ UNCHANGED << cred, jd, uploaded_file, submit, client, text,
                    formatted_prompt, response, result, report, exc, steps,
                    calls, api, earlier >>

\* lines 107-109 and 145-147
ParseResponse ==
    /\ pc = "parse"
    /\ LET r == json_loads(response.toks) IN
       IF r.exc = "JSONDecodeError"
       THEN /\ ui' = ui \o << Error("The response format was not as expected"),
                              Code(response) >>
            /\ Ends("MalformedResponse")
            /\ result' = result
       ELSE /\ result' = r.v
            /\ pc' = "render"
            /\ UNCHANGED <<ui, outcome>>
    /\ steps' = Append(steps, "parse")
    /\ UNCHANGED << cred, jd, uploaded_file, submit, client, text,
                    formatted_prompt, response, report, exc, calls, api,
                    earlier >>

\* lines 112-143; the except clause of line 145 catches JSONDecodeError
\* only, so an exception raised while rendering leaves the script uncaught
RenderReport ==
    /\ pc = "render"
    /\ LET r == render(result) IN
       /\ ui' = ui \o r.shown
       /\ report' = r.report
       /\ exc' = r.exc
       /\ Ends(IF r.exc = NoExc THEN "Report" ELSE "Uncaught")
    /\ UNCHANGED << cred, jd, uploaded_file, submit, client, text,
                    formatted_prompt, response, result, steps, calls, api,
                    earlier >>

Next ==
    \/ EnterJd
    \/ UploadFile
    \/ ClickSubmit
    \/ Reload
    \/ InitClient
    \/ ReadInputs
    \/ ExtractText
    \/ CompilePrompt
    \/ CallCompletion
    \/ CheckResponse
    \/ ParseResponse
    \/ RenderReport

Spec == Init /\ [][Next]_vars
SpecPairs == InitPairs /\ [][Next]_vars

(***************************************************************************)
(* Properties.                                                             *)
(***************************************************************************)
Has(seq, x) == \E i \in 1..Len(seq) : seq[i] = x
IsPrefix(a, b) == Len(a) <= Len(b) /\ a = SubSeq(b, 1, Len(a))
Count(seq, x) == Cardinality({i \in 1..Len(seq) : seq[i] = x})

\* the text is a JSON object
IsJsonObject(toks) ==
    LET r == json_loads(toks) IN r.exc = "none" /\ r.v.t = "dict"
\* the execution rendered (or tried to render) a parsed object
RenderedObject == pc = "idle" /\ result # Unset /\ result.t = "dict"

\* C1: a completion text that is not a JSON object ends the submission as
\* MalformedResponse: no report, no success indication, and the raw text
\* shown unmodified.
C1_NonObjectIsMalformed ==
    (Finished /\ Has(steps, "parse") /\ ~IsJsonObject(response.toks)) =>
        /\ outcome = "MalformedResponse"
        /\ report = EmptyDict
        /\ ~Has(ui, Success("Analysis Complete!"))
        /\ Has(ui, Code(response))

\* C2: every submission the script accepts ends in a rendered report or in
\* one of the errors ExtractionError, CompletionError, MalformedResponse; no
\* exception leaves the script uncaught.
C2_NoUncaughtException ==
    (Finished /\ steps # <<>>) =>
        /\ outcome \in {"Report", "ExtractionError", "CompletionError",
                        "MalformedResponse"}
        /\ exc = NoExc

\* C3: a completion request is sent only with a non-blank job description
\* and a non-empty resume text.
C3_RequestNeedsNonEmptyText ==
    calls > 0 =>
        /\ strip(jd.chars) # <<>>
        /\ text.t = "str"
        /\ text.chars # <<>>

\* the default of each key, lines 116, 118, 123, 134
Default(key) ==
    IF key = "JD Match" THEN PyStr("N/A")
    ELSE IF key = "ProfileSummary" THEN PyStr("No summary provided")
    ELSE PyList(<<>>)
\* the key whose value the raising line was working on
KeyAtLine(line) ==
    IF line = 116 THEN "JD Match"
    ELSE IF line \in {119, 128} THEN "MissingKeywords"
    ELSE "Suggestions"

C5_AnyTypePassesThrough ==
    RenderedObject =>
        /\ outcome = "Report"
        /\ \A key \in KeySet \cap DOMAIN result.d :
              key \in DOMAIN report /\ report[key] = result.d[key]

\* C6: when the completion call raises or its answer has no choice, the
\* failure is shown, the submission ends as CompletionError, the parse step
\* does not run and no report is produced.
C6_CompletionFailureHalts ==
    api \in {"raise", "nochoices"} =>
        /\ response = PyNone
        /\ Has(ui, Error("Error getting response from Groq"))
        /\ pc \in {"check", "idle"}
        /\ ~Has(steps, "parse")
        /\ result = Unset
        /\ report = EmptyDict
        /\ pc = "idle" =>
              /\ outcome = "CompletionError"
              /\ ui[Len(ui)] = Error("No response received from AI")
C6_Witness ==
    api = "nochoices" /\ pc = "idle" /\ outcome = "CompletionError"

\* C7: one execution sends at most one completion request, also after a
\* completion failure or a malformed response, and runs its steps in the
\* order extraction, prompt compilation, completion call, parse.
C7_SingleAttemptInOrder ==
    /\ calls <= 1
    /\ calls = Count(steps, "complete")
    /\ IsPrefix(steps, <<"extract", "compile", "complete", "parse">>)
C7_Witness ==
    /\ pc = "idle"
    /\ outcome = "MalformedResponse"
    /\ calls = 1
    /\ steps = <<"extract", "compile", "complete", "parse">>

\* the prompt for a resume text and a job description, braces single
ExpectedPrompt(text_, jd_) ==
    <<"A">> \o text_ \o <<"B">> \o jd_
    \o <<"C", "{", "D", "}", "E", "{", "F", ":", "G", "}", "H">>

\* C8: prompt compilation never raises, also when the resume text or the job
\* description holds braces; the prompt holds both values verbatim and the
\* instructions with single literal braces.
C8_PromptCompiles ==
    Has(steps, "compile") =>
        /\ exc.line # 100
        /\ formatted_prompt # Unset
        /\ formatted_prompt.chars = ExpectedPrompt(text.chars, jd.chars)
C8_Witness ==
    /\ formatted_prompt # Unset
    /\ Has(text.chars, "{")
    /\ Has(jd.chars, "}")

\* C9 as stated: with the credential absent or invalid, no submission is
\* processed and no completion request is sent.
C9_BadCredentialHalts ==
    cred # "valid" =>
        /\ steps = <<>>
        /\ calls = 0

\* C9 as amended: with the credential absent, client initialisation fails,
\* the error is shown and every execution halts at startup: no submission is
\* processed and no completion request is sent.
C9_AbsentCredentialHalts ==
    cred = "absent" =>
        /\ pc \in {"boot", "halted"}
        /\ client = "unset"
        /\ steps = <<>>
        /\ calls = 0
        /\ pc = "halted" =>
              /\ ui = <<Error("Failed to initialize Groq client")>>
              /\ outcome = "CredentialInitError"
C9_Witness ==
    cred = "absent" /\ pc = "halted"

\* C10: after a submission has ended, however it ended, a new one can be
\* made; every execution starts with nothing carried over from earlier ones;
\* and a submission with the same job description, document and collaborator
\* answers as an earlier one of the session comes out the same, whatever
\* happened in between.
C10_SubmissionsIndependent ==
    /\ pc = "boot" => Fresh
    /\ pc = "idle" => ENABLED ClickSubmit
    /\ (Finished /\ earlier.k = "seen" /\ earlier.inp = Inputs) =>
           earlier.out = Outputs
C10_Witness ==
    /\ Finished
    /\ earlier.k = "seen"
    /\ earlier.out.outcome = "Uncaught"
    /\ outcome = "Report"

====
